---------------------------- MODULE Spec2Model ----------------------------
(***************************************************************************)
(* The movie ratings dashboard (src/app.py): a Streamlit script that is    *)
(* re-run from top to bottom on every interaction.  One run reads the      *)
(* loaded table df, initialises the three filter keys of st.session_state  *)
(* when they are absent, reads the three sidebar widgets, filters df and   *)
(* recomputes the four aggregation views.                                  *)
(*                                                                         *)
(* A row of df stands for `n` consecutive rows of the CSV that agree on    *)
(* every column the script reads (they differ in user_id only, which the   *)
(* script never reads): counts add n, sums add n * rating.                 *)
(***************************************************************************)
EXTENDS Integers, Sequences, FiniteSets, TLC

VARIABLES df, session_state, event, filtered_df, top5_50, top5_150

vars == <<df, session_state, event, filtered_df, top5_50, top5_150>>

-----------------------------------------------------------------------------
(* Bounds of the model and constants of the program.                       *)

\* longest table of the filter specification (rows)
MaxRows == 2
\* most free rows appended to the catalogue head in the aggregation specification
MaxFree == 2

\* app.py:99, app.py:111, app.py:123: minimum number of ratings of a group
MinSupport == 50
\* app.py:124: minimum number of ratings of the second ranking
MinSupport150 == 150
\* app.py:123-124: head(5)
TopN == 5

-----------------------------------------------------------------------------
(* Values.  Python compares strings lexicographically; StrOrder lists the  *)
(* strings of the model in that order.                                     *)

StrOrder == <<"Action", "Alien", "Brazil", "Casino", "Comedy", "Drama", "Dune",
              "Eraserhead", "F", "Fargo", "M", "Western", "artist", "engineer">>

Rank(s) == CHOOSE i \in 1..Len(StrOrder) : StrOrder[i] = s

\* a missing CSV field, read by pandas as NaN
NaN == "NaN"

Range(s) == {s[i] : i \in 1..Len(s)}

RECURSIVE SortInts(_)
\* sorted(S) for a set of integers
SortInts(S) ==
    IF S = {} THEN <<>>
    ELSE LET m == CHOOSE x \in S : \A y \in S : x <= y
         IN  <<m>> \o SortInts(S \ {m})

\* sorted(S) for a set of strings
SortStrs(S) ==
    LET r == SortInts({Rank(s) : s \in S})
    IN  [i \in 1..Len(r) |-> StrOrder[r[i]]]

RECURSIVE Unique(_)
\* Series.unique(): the distinct values in order of first appearance
Unique(s) ==
    IF s = <<>> THEN <<>>
    ELSE LET u == Unique(SubSeq(s, 1, Len(s) - 1))
             x == s[Len(s)]
         IN  IF x \in Range(u) THEN u ELSE Append(u, x)

Column(frame, c) == [i \in 1..Len(frame) |-> frame[i][c]]

RECURSIVE SumF(_, _)
\* the sum of f over the index set S
SumF(f, S) ==
    IF S = {} THEN 0
    ELSE LET x == CHOOSE x \in S : TRUE
         IN  f[x] + SumF(f, S \ {x})

RECURSIVE SplitAcc(_, _)
SplitAcc(s, cur) ==
    IF s = <<>> THEN <<cur>>
    ELSE IF Head(s) = "|" THEN <<cur>> \o SplitAcc(Tail(s), "")
    ELSE SplitAcc(Tail(s), Head(s))

\* str.split('|') of a genres field, given as its sequence of words and '|'
\* characters.  An empty CSV field is read as NaN and stays NaN: the empty
\* result stands for it (split itself never returns an empty list).
Split(s) == IF s = <<>> THEN <<>> ELSE SplitAcc(s, "")

-----------------------------------------------------------------------------
(* The sidebar: defaults, session state, widgets (app.py:23-60).           *)

unique_ages == SortInts(Range(Column(df, "age")))

default_age_range == <<unique_ages[1], unique_ages[Len(unique_ages)]>>

\* faulty variant: the defaults listed as the widget options are, sorted
default_occupations_sorted == SortStrs(Range(Column(df, "occupation")))

default_occupations == Unique(Column(df, "occupation"))

default_genders == Unique(Column(df, "gender"))

\* faulty variant: the keys are set on every run
InitSessionStateAlways(ss) ==
    [k \in {"age_range", "occupations", "genders"} |->
        IF k = "age_range" THEN default_age_range
        ELSE IF k = "occupations" THEN default_occupations
        ELSE default_genders]

\* app.py:28-33: a key is set to its default only when it is absent
InitSessionState(ss) ==
    [k \in {"age_range", "occupations", "genders"} |->
        IF k \in DOMAIN ss THEN ss[k]
        ELSE IF k = "age_range" THEN default_age_range
        ELSE IF k = "occupations" THEN default_occupations
        ELSE default_genders]

\* faulty variant: the reset forgets the genders
clear_filters_two(ss) ==
    [ss EXCEPT !["age_range"] = default_age_range,
               !["occupations"] = default_occupations]

\* app.py:35-38
clear_filters(ss) ==
    [ss EXCEPT !["age_range"] = default_age_range,
               !["occupations"] = default_occupations,
               !["genders"] = default_genders]

\* faulty variant: a slider whose two handles may cross
SliderValuesCrossed ==
    (default_age_range[1]..default_age_range[2]) \X (default_age_range[1]..default_age_range[2])

\* the values a range slider over min_value..max_value can return
SliderValues ==
    {<<lo, hi>> \in (default_age_range[1]..default_age_range[2])
                    \X (default_age_range[1]..default_age_range[2]) : lo <= hi}

\* the values a multiselect over `options` can return: the chosen options,
\* each once, in the order they were chosen; none chosen is a value too
MultiselectValues(options) ==
    UNION {{s \in [1..k -> options] : \A i, j \in 1..k : i # j => s[i] # s[j]}
           : k \in 0..Cardinality(options)}

occupation_options == Range(SortStrs(Range(Column(df, "occupation"))))

gender_options == Range(SortStrs(Range(Column(df, "gender"))))

-----------------------------------------------------------------------------
(* Filtering (app.py:63-65).  A filtered frame is the sequence of the row  *)
(* labels of df it keeps, in df's order.                                   *)

AllRows == [i \in 1..Len(df) |-> i]

AgeTest(frame, age_range) ==
    SelectSeq(frame, LAMBDA i : df[i].age >= age_range[1] /\ df[i].age <= age_range[2])

OccupationTest(frame, occupations) ==
    SelectSeq(frame, LAMBDA i : df[i].occupation \in Range(occupations))

GenderTest(frame, genders) ==
    SelectSeq(frame, LAMBDA i : df[i].gender \in Range(genders))

\* faulty variant: the three tests joined by OR
FilterAny(ss) ==
    SelectSeq(AllRows, LAMBDA i :
        \/ AgeTest(<<i>>, ss["age_range"]) # <<>>
        \/ OccupationTest(<<i>>, ss["occupations"]) # <<>>
        \/ GenderTest(<<i>>, ss["genders"]) # <<>>)

Filter(ss) ==
    GenderTest(OccupationTest(AgeTest(AllRows, ss["age_range"]), ss["occupations"]),
               ss["genders"])

-----------------------------------------------------------------------------
(* The aggregation views (app.py:77-128).  A mean is kept as the fraction  *)
(* <<sum of ratings, number of ratings>>; two means are compared as the    *)
(* fractions are (float64 division of these small integers maps equal      *)
(* fractions to equal floats and different ones to different floats).      *)

MeanLess(a, b) == a[1] * b[2] < b[1] * a[2]

RECURSIVE ExplodeFirstTag(_)
\* faulty variant: only the first tag of a row is kept
ExplodeFirstTag(frame) ==
    IF frame = <<>> THEN <<>>
    ELSE LET i == Head(frame)
             tags == Split(df[i].genres)
         IN  <<[row |-> i, genre |-> IF tags = <<>> THEN NaN ELSE tags[1]]>>
             \o ExplodeFirstTag(Tail(frame))

RECURSIVE Explode(_)
\* app.py:82, app.py:97: one row per genre tag; a NaN field gives one NaN row
Explode(frame) ==
    IF frame = <<>> THEN <<>>
    ELSE LET i == Head(frame)
             tags == Split(df[i].genres)
         IN  (IF tags = <<>> THEN <<[row |-> i, genre |-> NaN]>>
              ELSE [k \in 1..Len(tags) |-> [row |-> i, genre |-> tags[k]]])
             \o Explode(Tail(frame))

\* app.py:82: value_counts() of the exploded genres; NaN is not counted
ValueCounts(ex) ==
    [g \in {ex[k].genre : k \in DOMAIN ex} \ {NaN} |->
        SumF([k \in DOMAIN ex |-> IF ex[k].genre = g THEN df[ex[k].row].n ELSE 0],
             DOMAIN ex)]

\* groupby(key).agg(mean_rating=('rating','mean'), count=('rating','count'))
\* .reset_index(): one row per key of `keys`, in that order
GroupAgg(rows, keyOf, keys) ==
    [j \in 1..Len(keys) |->
        LET S == {k \in DOMAIN rows : keyOf[k] = keys[j]}
            cnt == SumF([k \in DOMAIN rows |-> df[rows[k]].n], S)
            tot == SumF([k \in DOMAIN rows |-> df[rows[k]].n * df[rows[k]].rating], S)
        IN  [key |-> keys[j], mean_rating |-> <<tot, cnt>>, count |-> cnt]]

\* faulty variant: count > t
AtLeastStrict(frame, t) == SelectSeq(frame, LAMBDA r : r.count > t)

\* app.py:99, 111, 123, 124: frame[frame['count'] >= t]
AtLeast(frame, t) == SelectSeq(frame, LAMBDA r : r.count >= t)

\* app.py:96-98: groupby sorts the group keys and drops the NaN key
GenreGrouped(frame) ==
    LET ex == Explode(frame)
        keyOf == [k \in DOMAIN ex |-> ex[k].genre]
    IN  GroupAgg([k \in DOMAIN ex |-> ex[k].row], keyOf,
                 SortStrs(Range(keyOf) \ {NaN}))

\* faulty variant: groupby(sort=False), the years in order of first appearance
YearGroupedUnsorted(frame) ==
    LET keyOf == [k \in DOMAIN frame |-> df[frame[k]].year]
    IN  GroupAgg(frame, keyOf, Unique(keyOf))

\* app.py:110
YearGrouped(frame) ==
    LET keyOf == [k \in DOMAIN frame |-> df[frame[k]].year]
    IN  GroupAgg(frame, keyOf, SortInts(Range(keyOf)))

\* app.py:122
MovieGrouped(frame) ==
    LET keyOf == [k \in DOMAIN frame |-> df[frame[k]].title]
    IN  GroupAgg(frame, keyOf, SortStrs(Range(keyOf)))

RECURSIVE DescOrders(_, _)
\* the orders of the rows S of g that descend in mean_rating
DescOrders(g, S) ==
    IF S = {} THEN {<<>>}
    ELSE UNION {{<<g[m]>> \o rest : rest \in DescOrders(g, S \ {m})}
                : m \in {m \in S : \A k \in S :
                            ~MeanLess(g[m].mean_rating, g[k].mean_rating)}}

RECURSIVE AscOrders(_, _)
AscOrders(g, S) ==
    IF S = {} THEN {<<>>}
    ELSE UNION {{<<g[m]>> \o rest : rest \in AscOrders(g, S \ {m})}
                : m \in {m \in S : \A k \in S :
                            ~MeanLess(g[k].mean_rating, g[m].mean_rating)}}

\* faulty variant: ascending=True
SortValuesAsc(g) == AscOrders(g, DOMAIN g)

\* app.py:123-124: sort_values('mean_rating', ascending=False) with the
\* default kind='quicksort', which is not a stable sort: rows of equal
\* mean_rating come out in an order the numpy build decides
SortValuesDesc(g) == DescOrders(g, DOMAIN g)

\* head(k)
HeadRows(s, k) == SubSeq(s, 1, IF Len(s) < k THEN Len(s) ELSE k)

\* app.py:123-124: the rankings sort_values(...).head(5) can give
TopRated(movie_grouped, t) ==
    {HeadRows(s, TopN) : s \in SortValuesDesc(AtLeast(movie_grouped, t))}

-----------------------------------------------------------------------------
(* One run of the script (app.py:28-128) from session state ss.  The run   *)
(* leaves the session state, the filtered frame and the two rankings; the  *)
(* other views are functions of the filtered frame, defined below.         *)

ScriptRun(ss) ==
    LET s1 == InitSessionState(ss)
        f  == Filter(s1)
        movie_grouped == MovieGrouped(f)
    IN  /\ session_state' = s1
        /\ filtered_df' = f
        /\ top5_50' \in TopRated(movie_grouped, MinSupport)
        /\ top5_150' \in TopRated(movie_grouped, MinSupport150)
        /\ UNCHANGED df

\* app.py:82
genre_counts == ValueCounts(Explode(filtered_df))

\* app.py:96-99
genre_grouped == AtLeast(GenreGrouped(filtered_df), MinSupport)

\* app.py:110-111
year_grouped == AtLeast(YearGrouped(filtered_df), MinSupport)

\* app.py:79-128: what each of the four views puts on the page.  Only view 1
\* tests for an empty frame; views 2 to 4 plot or list whatever rows they have.
page ==
    IF event = "start"
    THEN [v1 |-> "none", v2 |-> "none", v3 |-> "none", v4 |-> "none"]
    ELSE [v1 |-> IF filtered_df = <<>> THEN "no_data"
                 ELSE IF DOMAIN genre_counts = {} THEN "no_genre_data"
                 ELSE "chart",
          v2 |-> "chart", v3 |-> "chart", v4 |-> "tables"]

\* the page is opened, or re-rendered with no widget touched
Rerun ==
    /\ ScriptRun(session_state)
    /\ event' = "rerun"

\* app.py:42-48: the slider is moved
MoveAgeSlider ==
    /\ event # "start"
    /\ \E v \in SliderValues \ {session_state["age_range"]} :
          ScriptRun([session_state EXCEPT !["age_range"] = v])
    /\ event' = "widget"

\* app.py:49-54
SelectOccupations ==
    /\ event # "start"
    /\ \E v \in MultiselectValues(occupation_options) \ {session_state["occupations"]} :
          ScriptRun([session_state EXCEPT !["occupations"] = v])
    /\ event' = "widget"

\* app.py:55-60
SelectGenders ==
    /\ event # "start"
    /\ \E v \in MultiselectValues(gender_options) \ {session_state["genders"]} :
          ScriptRun([session_state EXCEPT !["genders"] = v])
    /\ event' = "widget"

\* app.py:40: the button runs clear_filters, then the script
ClickClearAll ==
    /\ event # "start"
    /\ ScriptRun(clear_filters(session_state))
    /\ event' = "clear"

Next == Rerun \/ MoveAgeSlider \/ SelectOccupations \/ SelectGenders \/ ClickClearAll

-----------------------------------------------------------------------------
(* Tables.  The catalogue fixes the genres field and the year of a title.  *)

Ages == {25, 26}
Genders == {"F", "M"}
Occupations == {"artist", "engineer"}

Catalogue ==
    [t \in {"Alien", "Brazil", "Casino", "Dune", "Eraserhead", "Fargo"} |->
        CASE t = "Alien"      -> [genres |-> <<"Action", "|", "Comedy">>, year |-> 1999]
          [] t = "Brazil"     -> [genres |-> <<"Comedy">>, year |-> 1995]
          [] t = "Casino"     -> [genres |-> <<>>, year |-> 2001]
          [] t = "Dune"       -> [genres |-> <<"Drama">>, year |-> 1995]
          [] t = "Eraserhead" -> [genres |-> <<"Western">>, year |-> 1990]
          [] t = "Fargo"      -> [genres |-> <<"Drama", "|", "Action">>, year |-> 2001]]

Row(a, g, o, t, r, k) ==
    [age |-> a, gender |-> g, occupation |-> o, title |-> t,
     genres |-> Catalogue[t].genres, year |-> Catalogue[t].year, rating |-> r, n |-> k]

Blank ==
    /\ session_state = <<>>
    /\ event = "start"
    /\ filtered_df = <<>>
    /\ top5_50 = <<>>
    /\ top5_150 = <<>>

\* The tables of the filter specification: up to MaxRows single ratings, by
\* any viewers, of the first movies of a programme.
Programme == <<"Brazil", "Casino", "Alien", "Dune", "Fargo", "Eraserhead">>

Viewers == Ages \X Genders \X Occupations

FilterTables ==
    UNION {{[i \in 1..m |-> Row(v[i][1], v[i][2], v[i][3], Programme[i], 6 - i, 1)]
            : v \in [1..m -> Viewers]} : m \in 1..MaxRows}

Init ==
    /\ df \in FilterTables
    /\ Blank

Spec == Init /\ [][Next]_vars

\* The tables of the aggregation specification: a head of four well-rated
\* movies, then up to MaxFree blocks of 49 or 50 equal ratings each.
CatalogueHead ==
    <<Row(25, "F", "artist", "Alien", 5, 100), Row(26, "F", "artist", "Brazil", 4, 150),
      Row(25, "F", "artist", "Casino", 3, 150), Row(26, "F", "artist", "Dune", 2, 150)>>

FreeRows ==
    {Row(25, "F", "artist", t, r, k) :
        t \in {"Eraserhead", "Fargo"}, r \in {2, 5}, k \in {49, 50}}
    \cup {Row(25, "F", "artist", "Alien", 2, k) : k \in {49, 50}}

AggTables ==
    UNION {{CatalogueHead \o free : free \in [1..m -> FreeRows]} : m \in 0..MaxFree}

InitAgg ==
    /\ df \in AggTables
    /\ Blank

SpecAgg == InitAgg /\ [][Next]_vars

-----------------------------------------------------------------------------
(* What the claims speak of, counted directly from df and the selection.   *)

Started == event # "start"

Kept == Range(filtered_df)

Selection == session_state

InRange(i) ==
    /\ Selection["age_range"][1] <= df[i].age
    /\ df[i].age <= Selection["age_range"][2]

Distinct(s) == \A i, j \in 1..Len(s) : i # j => s[i] # s[j]

FirstRow(c, x) == CHOOSE i \in 1..Len(df) : df[i][c] = x /\ \A j \in 1..(i - 1) : df[j][c] # x

\* the tags of row i: the words of its genres field (no field repeats a tag)
Tags(i) == Range(df[i].genres) \ {"|"}

\* the number of CSV rows standing behind the kept rows
Records(S) == SumF([i \in 1..Len(df) |-> df[i].n], S)

GenreSupport(g) == Records({i \in Kept : g \in Tags(i)})

YearSupport(y) == Records({i \in Kept : df[i].year = y})

MovieSupport(t) == Records({i \in Kept : df[i].title = t})

MovieTotal(t) ==
    SumF([i \in 1..Len(df) |-> df[i].n * df[i].rating], {i \in Kept : df[i].title = t})

SameMean(a, b) == ~MeanLess(a, b) /\ ~MeanLess(b, a)

-----------------------------------------------------------------------------
\* C1: a row of df is in the filtered view if and only if its age lies in the
\* selected range and its occupation and its gender are among the selected
\* ones; rows that agree on these three are kept or dropped together whatever
\* their title, genres, year and rating; the view keeps each row at most once,
\* in df's order, so it is never larger than df.
C1_FilterIff ==
    Started =>
        /\ \A i \in 1..Len(df) :
              i \in Kept <=> /\ InRange(i)
                            /\ df[i].occupation \in Range(Selection["occupations"])
                            /\ df[i].gender \in Range(Selection["genders"])
        /\ \A i, j \in 1..Len(df) :
              (df[i].age = df[j].age /\ df[i].occupation = df[j].occupation
                 /\ df[i].gender = df[j].gender) => (i \in Kept <=> j \in Kept)
        /\ \A k \in 1..(Len(filtered_df) - 1) : filtered_df[k] < filtered_df[k + 1]
        /\ Len(filtered_df) <= Len(df)

\* one rating kept and one dropped for its gender alone
C1_Witness ==
    /\ event = "widget"
    /\ \E i \in Kept, j \in (1..Len(df)) \ Kept :
          /\ InRange(j)
          /\ df[j].occupation \in Range(Selection["occupations"])
          /\ df[j].gender \notin Range(Selection["genders"])
          /\ df[i].title # df[j].title

C3_ResetGivesDefaults ==
    [][event' = "clear" =>
          /\ session_state'["age_range"] = default_age_range
          /\ session_state'["occupations"] = default_occupations
          /\ session_state'["genders"] = default_genders
          /\ event = "clear" => session_state' = session_state]_vars

\* the button was clicked on a table with two occupations and two genders
C3_Witness ==
    /\ event = "clear"
    /\ Len(Selection["occupations"]) = 2
    /\ Len(Selection["genders"]) = 2
    /\ Len(filtered_df) = Len(df)

\* C10: the selection is set to the defaults only when it is absent: a run of
\* the script with no widget touched and no reset leaves every field that is
\* present as it was, the run that follows a widget change keeps the changed
\* field and leaves the other two as they were, and no step changes df.
C10_RerunKeepsSelection ==
    [][/\ event' = "rerun" => \A k \in DOMAIN session_state :
                                    session_state'[k] = session_state[k]
       /\ event' = "widget" =>
             /\ session_state' # session_state
             /\ Cardinality({k \in DOMAIN session_state :
                                 session_state'[k] # session_state[k]}) = 1
       /\ df' = df]_vars

\* a re-run with a selection that is not the default one
C10_Witness ==
    /\ event = "rerun"
    /\ Selection["occupations"] # default_occupations
    /\ Selection["age_range"] # default_age_range

\* C9 as claimed: the default age range is [min age, max age], the default
\* occupations and genders are all the distinct values of df, and both lists
\* are in lexicographic order.
C9_DefaultsLexicographic ==
    Started =>
        /\ \A i \in 1..Len(df) : default_age_range[1] <= df[i].age
                                     /\ df[i].age <= default_age_range[2]
        /\ Range(default_occupations) = {df[i].occupation : i \in 1..Len(df)}
        /\ Range(default_genders) = {df[i].gender : i \in 1..Len(df)}
        /\ \A i, j \in 1..Len(default_occupations) :
              i < j => Rank(default_occupations[i]) < Rank(default_occupations[j])
        /\ \A i, j \in 1..Len(default_genders) :
              i < j => Rank(default_genders[i]) < Rank(default_genders[j])

\* C9 as amended: the default age range is [min age, max age] of df; the
\* default occupations and genders hold every distinct value of df exactly
\* once, in the order in which the values first appear in df.
C9_DefaultsFirstAppearance ==
    Started =>
        /\ \A i \in 1..Len(df) : default_age_range[1] <= df[i].age
                                     /\ df[i].age <= default_age_range[2]
        /\ \E i, j \in 1..Len(df) : default_age_range = <<df[i].age, df[j].age>>
        /\ Range(default_occupations) = {df[i].occupation : i \in 1..Len(df)}
        /\ Range(default_genders) = {df[i].gender : i \in 1..Len(df)}
        /\ Distinct(default_occupations)
        /\ Distinct(default_genders)
        /\ \A i, j \in 1..Len(default_occupations) :
              i < j => FirstRow("occupation", default_occupations[i])
                         < FirstRow("occupation", default_occupations[j])
        /\ \A i, j \in 1..Len(default_genders) :
              i < j => FirstRow("gender", default_genders[i])
                         < FirstRow("gender", default_genders[j])

\* the defaults are in force on a table that names "engineer" before "artist"
C9_Witness ==
    /\ Started
    /\ Selection["occupations"] = default_occupations
    /\ default_occupations = <<"engineer", "artist">>
    /\ default_age_range[1] < default_age_range[2]

\* C4 as claimed: when nothing matches the selection every one of the four
\* views reports "no data", and so does a thresholded view none of whose
\* groups has enough ratings.
C4_EmptyReportsNoData ==
    Started =>
        /\ filtered_df = <<>> =>
              /\ page.v1 = "no_data"
              /\ page.v2 = "no_data"
              /\ page.v3 = "no_data"
              /\ page.v4 = "no_data"
        /\ genre_grouped = <<>> => page.v2 = "no_data"
        /\ year_grouped = <<>> => page.v3 = "no_data"
        /\ (top5_50 = <<>> /\ top5_150 = <<>>) => page.v4 = "no_data"

\* C5: the genre view lists exactly the genres with at least 50 ratings among
\* the exploded kept rows, the year view exactly the years with at least 50
\* ratings, each with its true count, and each view is a part of what the same
\* grouping gives with no threshold.
C5_MinSupport ==
    Started =>
        /\ {r.key : r \in Range(genre_grouped)}
              = {g \in UNION {Tags(i) : i \in Kept} : GenreSupport(g) >= MinSupport}
        /\ \A r \in Range(genre_grouped) : r.count = GenreSupport(r.key)
        /\ {r.key : r \in Range(year_grouped)}
              = {y \in {df[i].year : i \in Kept} : YearSupport(y) >= MinSupport}
        /\ \A r \in Range(year_grouped) : r.count = YearSupport(r.key)
        /\ Range(genre_grouped) \subseteq Range(GenreGrouped(filtered_df))
        /\ Range(year_grouped) \subseteq Range(YearGrouped(filtered_df))

\* a genre with exactly 50 ratings is listed while another, with fewer, is not
C5_Witness ==
    /\ Started
    /\ \E r \in Range(genre_grouped) : r.count = MinSupport
    /\ \E g \in UNION {Tags(i) : i \in Kept} : GenreSupport(g) < MinSupport
    /\ \E r \in Range(year_grouped) : r.count = MinSupport

\* the sum of the per-genre counts of view 1
GenreCountsSum == SumF(genre_counts, DOMAIN genre_counts)

\* C6 as claimed: over a non-empty filtered view the per-genre counts sum to
\* at least the number of filtered records, with equality if and only if every
\* filtered record has exactly one genre tag.
C6_SumAtLeastRecords ==
    (Started /\ filtered_df # <<>>) =>
        /\ GenreCountsSum >= Records(Kept)
        /\ GenreCountsSum = Records(Kept) <=> \A i \in Kept : Cardinality(Tags(i)) = 1

\* C6 as amended: the per-genre counts sum to the number of genre tags of the
\* filtered records, a record with a missing genres field adding none; when
\* every filtered record has at least one tag the sum is at least the number
\* of filtered records, with equality if and only if each has exactly one.
C6_SumIsTagCount ==
    (Started /\ filtered_df # <<>>) =>
        /\ GenreCountsSum
              = SumF([i \in 1..Len(df) |-> df[i].n * Cardinality(Tags(i))], Kept)
        /\ \A g \in DOMAIN genre_counts : genre_counts[g] = GenreSupport(g)
        /\ (\A i \in Kept : Tags(i) # {}) =>
              /\ GenreCountsSum >= Records(Kept)
              /\ GenreCountsSum = Records(Kept)
                    <=> \A i \in Kept : Cardinality(Tags(i)) = 1

\* records with two tags and records with no genres field are counted together
C6_Witness ==
    /\ event = "widget"
    /\ \E i, j \in Kept : Cardinality(Tags(i)) = 2 /\ Tags(j) = {}
    /\ GenreCountsSum < Records(Kept)

\* C8: the year view lists its years in strictly ascending order.
C8_YearsAscending ==
    Started => \A i, j \in 1..Len(year_grouped) :
                  i < j => year_grouped[i].key < year_grouped[j].key

\* four years are listed although df names them in another order
C8_Witness ==
    /\ Started
    /\ Len(year_grouped) = 4
    /\ \E i, j \in Kept : i < j /\ df[i].year > df[j].year

\* what C7 says of one ranking for threshold t, the order of ties left open
Ranked(top, t) ==
    /\ Len(top) <= TopN
    /\ \A i \in 1..Len(top) :
          /\ top[i].count >= t
          /\ top[i].count = MovieSupport(top[i].key)
          /\ top[i].mean_rating = <<MovieTotal(top[i].key), top[i].count>>
    /\ \A i, j \in 1..Len(top) : i < j =>
          /\ top[i].key # top[j].key
          /\ ~MeanLess(top[i].mean_rating, top[j].mean_rating)
    /\ \A m \in {df[i].title : i \in Kept} :
          (MovieSupport(m) >= t /\ \A i \in 1..Len(top) : top[i].key # m) =>
              \A i \in 1..Len(top) :
                  ~MeanLess(top[i].mean_rating, <<MovieTotal(m), MovieSupport(m)>>)

\* movies of equal mean stand in the order of the grouping, by title
TiesInGroupOrder(top) ==
    \A i, j \in 1..Len(top) :
        (i < j /\ SameMean(top[i].mean_rating, top[j].mean_rating))
            => Rank(top[i].key) < Rank(top[j].key)

\* C7 as claimed: each ranking holds at most 5 movies with at least T ratings,
\* in descending order of mean rating, no movie left out having a higher mean
\* than one listed, and movies of equal mean in the order of the grouping.
C7_StableRanking ==
    Started =>
        /\ Ranked(top5_50, MinSupport) /\ TiesInGroupOrder(top5_50)
        /\ Ranked(top5_150, MinSupport150) /\ TiesInGroupOrder(top5_150)

\* C7 as amended: as claimed, except that movies of equal mean rating stand in
\* no particular order, and which of them the cut at 5 keeps is open too.
C7_Ranking ==
    Started =>
        /\ Ranked(top5_50, MinSupport)
        /\ Ranked(top5_150, MinSupport150)

\* six movies have 50 ratings, five are listed, and two of equal mean stand
\* against the order of their titles
C7_Witness ==
    /\ Started
    /\ Cardinality({m \in {df[i].title : i \in Kept} : MovieSupport(m) >= MinSupport}) = 6
    /\ Len(top5_50) = TopN
    /\ ~TiesInGroupOrder(top5_50)
    /\ Len(top5_150) = 3

=============================================================================
